---- MODULE Spec2Model ----
(***************************************************************************)
(* A model of slewie/lyrics-decoder: the SQLite result store               *)
(* (database/db.py, database/operations.py), the cache-aside analysis      *)
(* pipeline (frontend/service/analyze_service.py) and the Telegram         *)
(* conversation that drives it (frontend/bot.py).                          *)
(*                                                                         *)
(* Text is a sequence of Unicode code points, so that Python's             *)
(* str.lower()/str.strip() and SQLite's LOWER()/TRIM() are modelled by     *)
(* what each does.  A timestamp is <<day, second>>; SQLite stores it as    *)
(* the text "day second" (CURRENT_TIMESTAMP) and Python's isoformat()      *)
(* writes "dayTsecond"; both are sequences of numbers in which the         *)
(* separator is its code point.  The host clock is taken to be UTC.        *)
(***************************************************************************)
EXTENDS Integers, Sequences, FiniteSets, TLC

VARIABLES
    song_cache,     \* table song_cache: a set of rows
    last_id,        \* sqlite_sequence of song_cache (AUTOINCREMENT)
    now,            \* the clock, <<day, second>>
    ret,            \* what the last direct call of a store operation returned
    users,          \* table users: user_id -> row, or NoRow
    query_history,  \* table query_history: the rows in id order
    conv,           \* ConversationHandler state of each chat
    user_data,      \* context.user_data of each chat
    reply,          \* the last message the bot sent
    pc,             \* where each concurrent analyze() call stands
    frame,          \* the locals and the outcome of each analyze() call
    calls           \* the analyze() calls completed so far, in order

vars == <<song_cache, last_id, now, ret, users, query_history, conv,
          user_data, reply, pc, frame, calls>>

storeVars == <<song_cache, last_id>>
botVars == <<users, query_history, conv, user_data, reply>>
pipeVars == <<pc, frame, calls>>

----------------------------------------------------------------------------
(* Bounds of the model. *)

MaxRows == 2        \* rows ever inserted into song_cache
MaxCount == 5       \* access_count a read may still raise
MaxDay == 1         \* last day of the clock
MaxSec == 1         \* last second of a day
MaxLimit == 2       \* largest limit asked of get_popular_songs
MaxCalls == 3       \* analyze() calls recorded
MaxHistory == 2     \* rows ever inserted into query_history

(* access_count < 5 in clean_old_cache. *)
PopularityThreshold == 5

----------------------------------------------------------------------------
(* Text. *)

None == "None"

Min(a, b) == IF a < b THEN a ELSE b

(* str.lower(): ASCII A-Z and, as Unicode case folding does, the other     *)
(* cased letters; here the Cyrillic capitals U+0410..U+042F.               *)
PyLowerChar(c) ==
    IF c \in 65..90 \/ c \in 1040..1071 THEN c + 32 ELSE c

(* SQLite's built-in LOWER(): ASCII only. *)
SqlLowerChar(c) ==
    IF c \in 65..90 THEN c + 32 ELSE c

(* str.strip() removes every whitespace character. *)
PyIsSpace(c) == c \in {9, 10, 11, 12, 13, 28, 29, 30, 31, 32, 133, 160}

(* SQLite's TRIM(X) removes spaces only. *)
SqlIsSpace(c) == c = 32

RECURSIVE PyLStrip(_)
PyLStrip(s) ==
    IF s # <<>> /\ PyIsSpace(Head(s)) THEN PyLStrip(Tail(s)) ELSE s

RECURSIVE PyRStrip(_)
PyRStrip(s) ==
    IF s # <<>> /\ PyIsSpace(s[Len(s)])
    THEN PyRStrip(SubSeq(s, 1, Len(s) - 1)) ELSE s

RECURSIVE SqlLTrim(_)
SqlLTrim(s) ==
    IF s # <<>> /\ SqlIsSpace(Head(s)) THEN SqlLTrim(Tail(s)) ELSE s

RECURSIVE SqlRTrim(_)
SqlRTrim(s) ==
    IF s # <<>> /\ SqlIsSpace(s[Len(s)])
    THEN SqlRTrim(SubSeq(s, 1, Len(s) - 1)) ELSE s

(* The lookup key without the strip(). *)
PyNormNoStrip(s) == [i \in 1..Len(s) |-> PyLowerChar(s[i])]

(* artist.lower().strip() *)
PyNorm(s) == PyRStrip(PyLStrip([i \in 1..Len(s) |-> PyLowerChar(s[i])]))

(* LOWER(TRIM(artist)) *)
SqlNorm(s) ==
    LET t == SqlRTrim(SqlLTrim(s))
    IN  [i \in 1..Len(t) |-> SqlLowerChar(t[i])]

(* The texts a caller passes: "A", "a", " a", "a a", the Cyrillic "Я" and  *)
(* "я", and "a" followed by a tab.                                         *)
RawArtists ==
    {<<65>>, <<97>>, <<32, 97>>, <<97, 32, 97>>, <<1071>>, <<1103>>, <<97, 9>>}

(* "x" and "X". *)
RawSongs == {<<120>>, <<88>>}

(* "A", "a" and "Я"; "x". *)
SomeArtists == {<<65>>, <<97>>, <<1071>>}
OneSong == {<<120>>}

(* What the bot's users type and its collaborators answer: "A" and "Я". *)
BotArtists == {<<65>>, <<1071>>}
BotLyrics == {"L1"}
BotSummaries == {"", "S1"}

Lyrics == {"L1", "L2"}
Summaries == {"", "S1", "S2"}

(* bool(summary): None and "" are falsy. *)
Truthy(s) == s # None /\ s # ""

----------------------------------------------------------------------------
(* Time. *)


(* t1 is earlier than t2. *)
Earlier(t1, t2) == t1[1] < t2[1] \/ (t1[1] = t2[1] /\ t1[2] < t2[2])

(* CURRENT_TIMESTAMP: 'YYYY-MM-DD HH:MM:SS'. *)
SqlTimestamp(t) == <<t[1], 32, t[2]>>

(* datetime.isoformat(): 'YYYY-MM-DDTHH:MM:SS'. *)
IsoFormat(t) == <<t[1], 84, t[2]>>

(* The instant a stored timestamp text stands for. *)
ParseTimestamp(x) == <<x[1], x[3]>>

(* datetime.now() - timedelta(days=days) *)
MinusDays(t, days) == <<t[1] - days, t[2]>>

(* SQLite's comparison of two TEXT values (BINARY collation: memcmp). *)
RECURSIVE TextLess(_, _)
TextLess(x, y) ==
    IF y = <<>> THEN FALSE
    ELSE IF x = <<>> THEN TRUE
    ELSE IF Head(x) # Head(y) THEN Head(x) < Head(y)
    ELSE TextLess(Tail(x), Tail(y))

----------------------------------------------------------------------------
(* The result store: table song_cache. *)

(* INSERT INTO song_cache (artist, song_name, lyrics, analysis_summary):   *)
(* id from AUTOINCREMENT, cached_at and last_accessed CURRENT_TIMESTAMP,   *)
(* access_count 1.                                                         *)
(* The INSERT with access_count DEFAULT 0. *)
NewCacheRowUncounted(id, t, artist, song_name, lyrics, summary) ==
    [id |-> id, artist |-> artist, song_name |-> song_name,
     lyrics |-> lyrics, analysis_summary |-> summary,
     cached_at |-> SqlTimestamp(t), access_count |-> 0,
     last_accessed |-> SqlTimestamp(t)]

NewCacheRow(id, t, artist, song_name, lyrics, summary) ==
    [id |-> id, artist |-> artist, song_name |-> song_name,
     lyrics |-> lyrics, analysis_summary |-> summary,
     cached_at |-> SqlTimestamp(t), access_count |-> 1,
     last_accessed |-> SqlTimestamp(t)]

(* The INSERT raises: UNIQUE(artist, song_name) compares the stored text   *)
(* as it is; lyrics is NOT NULL.                                           *)
InsertRaises(cache, artist, song_name, lyrics) ==
    \/ lyrics = None
    \/ \E r \in cache : r.artist = artist /\ r.song_name = song_name

(* The rows get_cached_song's SELECT matches: the stored text folded by    *)
(* SQLite, the parameters folded by Python.                                *)
LookupRows(cache, artist, song_name) ==
    {r \in cache : /\ SqlNorm(r.artist) = PyNorm(artist)
                   /\ SqlNorm(r.song_name) = PyNorm(song_name)}

(* The rows cache_song's UPDATE and SELECT match: both sides folded by     *)
(* SQLite.                                                                 *)
UpsertRows(cache, artist, song_name) ==
    {r \in cache : /\ SqlNorm(r.artist) = SqlNorm(artist)
                   /\ SqlNorm(r.song_name) = SqlNorm(song_name)}

(* fetchone() of a scan of the table: the matching row of least rowid.     *)
FirstRow(rows) == CHOOSE r \in rows : \A q \in rows : r.id <= q.id

(* The UPDATE without the counter. *)
TouchNoCount(r, t) == [r EXCEPT !.last_accessed = SqlTimestamp(t)]

(* SET access_count = access_count + 1, last_accessed = CURRENT_TIMESTAMP  *)
Touch(r, t) ==
    [r EXCEPT !.access_count = @ + 1, !.last_accessed = SqlTimestamp(t)]

(* get_cached_song returning the row as the UPDATE left it. *)
get_cached_song_updated(cache, t, artist, song_name) ==
    LET rows == LookupRows(cache, artist, song_name)
    IN  IF rows = {}
        THEN [found |-> FALSE, cache |-> cache]
        ELSE LET row == FirstRow(rows)
             IN  [found |-> TRUE, row |-> Touch(row, t),
                  cache |-> (cache \ {row}) \cup {Touch(row, t)}]

(* get_cached_song: the row as it was read, and the table after the        *)
(* UPDATE ... WHERE id = row['id'].                                        *)
get_cached_song(cache, t, artist, song_name) ==
    LET rows == LookupRows(cache, artist, song_name)
    IN  IF rows = {}
        THEN [found |-> FALSE, cache |-> cache]
        ELSE LET row == FirstRow(rows)
             IN  [found |-> TRUE, row |-> row,
                  cache |-> (cache \ {row}) \cup {Touch(row, t)}]

(* cache_song: the outcomes it can have.  The INSERT succeeds, or raises   *)
(* and the except branch updates every row of the same SQLite-folded key   *)
(* and returns the id of one of them (the SELECT has no ORDER BY), or None *)
(* when there is none; an UPDATE that sets lyrics to NULL raises again.    *)
cache_song(cache, lid, t, artist, song_name, lyrics, summary) ==
    IF ~InsertRaises(cache, artist, song_name, lyrics)
    THEN {[raised |-> FALSE, found |-> TRUE, id |-> lid + 1,
           last_id |-> lid + 1,
           cache |-> cache \cup
               {NewCacheRow(lid + 1, t, artist, song_name, lyrics, summary)}]}
    ELSE LET hit == UpsertRows(cache, artist, song_name)
             upd == (cache \ hit) \cup
                    {[Touch(r, t) EXCEPT !.lyrics = lyrics,
                                         !.analysis_summary = summary]
                        : r \in hit}
         IN  IF hit = {}
             THEN {[raised |-> FALSE, found |-> FALSE, id |-> 0,
                    last_id |-> lid, cache |-> cache]}
             ELSE IF lyrics = None
             THEN {[raised |-> TRUE, found |-> FALSE, id |-> 0,
                    last_id |-> lid, cache |-> cache]}
             ELSE {[raised |-> FALSE, found |-> TRUE, id |-> r.id,
                    last_id |-> lid, cache |-> upd] : r \in hit}

(* The ORDER BY with last_accessed ascending. *)
OrderBeforeOldestFirst(r, q) ==
    \/ r.access_count > q.access_count
    \/ /\ r.access_count = q.access_count
       /\ TextLess(r.last_accessed, q.last_accessed)

(* A row ranks before another in ORDER BY access_count DESC,               *)
(* last_accessed DESC.                                                     *)
OrderBefore(r, q) ==
    \/ r.access_count > q.access_count
    \/ /\ r.access_count = q.access_count
       /\ TextLess(q.last_accessed, r.last_accessed)

(* The orders in which the ORDER BY may deliver the rows. *)
SortedRows(cache) ==
    {s \in [1..Cardinality(cache) -> cache] :
        /\ \A i, j \in DOMAIN s : i # j => s[i] # s[j]
        /\ \A i, j \in DOMAIN s : i < j => ~OrderBefore(s[j], s[i])}

(* SELECT artist, song_name, access_count, last_accessed *)
PopularColumns(r) ==
    [artist |-> r.artist, song_name |-> r.song_name,
     access_count |-> r.access_count, last_accessed |-> r.last_accessed]

(* get_popular_songs: the lists it can return.  LIMIT with a negative      *)
(* number is no limit.                                                     *)
get_popular_songs(cache, limit) ==
    LET n == IF limit < 0 THEN Cardinality(cache)
             ELSE Min(limit, Cardinality(cache))
    IN  {[i \in 1..n |-> PopularColumns(s[i])] : s \in SortedRows(cache)}

(* The rows clean_old_cache's DELETE matches: last_accessed, a text        *)
(* 'day second', compared as text with the isoformat() 'dayTsecond'.       *)
StaleRows(cache, t, days) ==
    {r \in cache :
        /\ TextLess(r.last_accessed, IsoFormat(MinusDays(t, days)))
        /\ r.access_count < PopularityThreshold}

(* clean_old_cache: the table after the DELETE, and cursor.rowcount. *)
clean_old_cache(cache, t, days) ==
    [cache |-> cache \ StaleRows(cache, t, days),
     deleted_count |-> Cardinality(StaleRows(cache, t, days))]

----------------------------------------------------------------------------
(* The store's operations called directly, one call at a time. *)

NoRet == [op |-> "none"]

GetCachedSong(artist, song_name) ==
    LET g == get_cached_song(song_cache, now, artist, song_name)
    IN  /\ g.found => g.row.access_count < MaxCount
        /\ song_cache' = g.cache
        /\ ret' = IF g.found
                  THEN [op |-> "get", found |-> TRUE, row |-> g.row]
                  ELSE [op |-> "get", found |-> FALSE]
        /\ UNCHANGED <<last_id, now, botVars, pipeVars>>

CacheSong(artist, song_name, lyrics, summary) ==
    \E o \in cache_song(song_cache, last_id, now, artist, song_name,
                        lyrics, summary) :
        /\ o.last_id <= MaxRows
        /\ \A r \in o.cache : r.access_count <= MaxCount
        /\ song_cache' = o.cache
        /\ last_id' = o.last_id
        /\ ret' = [op |-> "put", raised |-> o.raised, found |-> o.found,
                   id |-> o.id]
        /\ UNCHANGED <<now, botVars, pipeVars>>

GetPopularSongs(limit) ==
    /\ \E l \in get_popular_songs(song_cache, limit) :
           ret' = [op |-> "popular", limit |-> limit, list |-> l]
    /\ UNCHANGED <<storeVars, now, botVars, pipeVars>>

CleanOldCache(days) ==
    LET c == clean_old_cache(song_cache, now, days)
    IN  /\ song_cache' = c.cache
        /\ ret' = [op |-> "clean", days |-> days,
                   deleted_count |-> c.deleted_count]
        /\ UNCHANGED <<last_id, now, botVars, pipeVars>>

(* Time passes: to the next second of the day, or to the next day. *)
Tick ==
    /\ \/ /\ now[2] < MaxSec
          /\ now' = <<now[1], now[2] + 1>>
       \/ /\ now[1] < MaxDay
          /\ now' = <<now[1] + 1, 0>>
    /\ UNCHANGED <<storeVars, ret, botVars, pipeVars>>

----------------------------------------------------------------------------
(* The analysis pipeline: AnylyzeService.analyze. *)

(* An exception's message is the sequence of its parts; str(e) is empty    *)
(* when there is none.                                                     *)
ErrMsgs == {<<>>, <<"timed out">>}

(* raise Exception(f"Ошибка Genius API: {e}") *)
GeniusError(m) == <<"Genius API: ">> \o m

(* The lookup made, and its outcome never used. *)
analyze_lookup_bypass(cache, t, artist, song_name) ==
    [served |-> FALSE,
     cache |-> get_cached_song(cache, t, artist, song_name).cache]

(* Lines 33-41: the lookup, and the result when it is served from cache. *)
analyze_lookup(cache, t, artist, song_name) ==
    LET g == get_cached_song(cache, t, artist, song_name)
    IN  IF g.found /\ Truthy(g.row.analysis_summary)
        THEN [served |-> TRUE, cache |-> g.cache, row |-> g.row,
              data |-> [summary |-> g.row.analysis_summary,
                        lyrics |-> g.row.lyrics, from_cache |-> TRUE]]
        ELSE [served |-> FALSE, cache |-> g.cache]

(* Line 52 and 66: the dict of interpret_lyrics with from_cache added. *)
analyze_result(summary) == [summary |-> summary, from_cache |-> FALSE]

(* Lines 55-64: cache_song inside try/except; a failure is logged and the  *)
(* table is as it was.                                                     *)
analyze_store(cache, lid, t, artist, song_name, lyrics, summary, storeUp) ==
    IF storeUp
    THEN {[cache |-> o.cache, last_id |-> o.last_id] :
             o \in cache_song(cache, lid, t, artist, song_name, lyrics,
                              summary)}
    ELSE {[cache |-> cache, last_id |-> lid]}

Procs == {"p1", "p2"}

Idle == [artist |-> <<>>, song_name |-> <<>>, lyrics |-> None, start |-> 0]

InFlight == {p \in Procs : pc[p] # "idle"}

(* A completed call as `calls` records it: its arguments, how many calls  *)
(* had completed when it began, what its collaborators gave it (the row    *)
(* read on a hit, the lyrics fetched and the summary computed on a miss),  *)
(* whether cache_song stored the result, and what it returned or raised.   *)
Served(p, f, row, data) ==
    calls' = Append(calls, [proc |-> p, start |-> f.start,
                            artist |-> f.artist, song_name |-> f.song_name,
                            status |-> "returned", hit |-> TRUE,
                            row |-> row, data |-> data])

Returned(p, f, summary, stored, data) ==
    calls' = Append(calls, [proc |-> p, start |-> f.start,
                            artist |-> f.artist, song_name |-> f.song_name,
                            status |-> "returned", hit |-> FALSE,
                            fetched |-> f.lyrics, computed |-> summary,
                            stored |-> stored, data |-> data])

Raised(p, f, m) ==
    calls' = Append(calls, [proc |-> p, start |-> f.start,
                            artist |-> f.artist, song_name |-> f.song_name,
                            status |-> "raised", error |-> m])

Called(artist, song_name) ==
    [artist |-> artist, song_name |-> song_name, lyrics |-> None,
     start |-> Len(calls)]

(* What sqlite3 says when a statement fails (sqlite3.OperationalError). *)
StoreErrMsgs == {<<"database is locked">>}

(* analyze() is called and get_cached_song raises: line 33 is outside any  *)
(* try, so analyze raises what the store raised.  The statement that       *)
(* failed changed nothing.                                                 *)
AnalyzeLookupRaises(p, artist, song_name, m) ==
    /\ pc[p] = "idle"
    /\ Len(calls) + Cardinality(InFlight) < MaxCalls
    /\ Raised(p, Called(artist, song_name), m)
    /\ UNCHANGED <<storeVars, now, ret, botVars, pc, frame>>

(* analyze() is called and the cache serves it. *)
AnalyzeServed(p, artist, song_name) ==
    LET a == analyze_lookup(song_cache, now, artist, song_name)
    IN  /\ pc[p] = "idle"
        /\ Len(calls) + Cardinality(InFlight) < MaxCalls
        /\ a.served
        /\ \A r \in a.cache : r.access_count <= MaxCount
        /\ song_cache' = a.cache
        /\ Served(p, Called(artist, song_name), a.row, a.data)
        /\ UNCHANGED <<last_id, now, ret, botVars, pc, frame>>

(* analyze() is called, the cache does not serve it, and the call waits    *)
(* for the lyrics.                                                         *)
AnalyzeMissed(p, artist, song_name) ==
    LET a == analyze_lookup(song_cache, now, artist, song_name)
    IN  /\ pc[p] = "idle"
        /\ Len(calls) + Cardinality(InFlight) < MaxCalls
        /\ ~a.served
        /\ \A r \in a.cache : r.access_count <= MaxCount
        /\ song_cache' = a.cache
        /\ pc' = [pc EXCEPT ![p] = "fetch"]
        /\ frame' = [frame EXCEPT ![p] = Called(artist, song_name)]
        /\ UNCHANGED <<last_id, now, ret, botVars, calls>>

(* fetch_lyrics returns; the call waits for interpret_lyrics.  The body of *)
(* fetch_lyrics awaits nothing, so the event loop switches calls only at   *)
(* interpret_lyrics; a switch here as well only adds interleavings.        *)
FetchReturns(p, lyrics) ==
    /\ pc[p] = "fetch"
    /\ pc' = [pc EXCEPT ![p] = "compute"]
    /\ frame' = [frame EXCEPT ![p].lyrics = lyrics]
    /\ UNCHANGED <<storeVars, now, ret, botVars, calls>>

(* fetch_lyrics raises; analyze raises the wrapped exception. *)
FetchRaises(p, m) ==
    /\ pc[p] = "fetch"
    /\ pc' = [pc EXCEPT ![p] = "idle"]
    /\ frame' = [frame EXCEPT ![p] = Idle]
    /\ Raised(p, frame[p], GeniusError(m))
    /\ UNCHANGED <<storeVars, now, ret, botVars>>

(* interpret_lyrics returns and a failure of cache_song is not caught. *)
ComputeReturnsStrict(p, summary, storeUp) ==
    /\ pc[p] = "compute"
    /\ \E o \in analyze_store(song_cache, last_id, now, frame[p].artist,
                              frame[p].song_name, frame[p].lyrics, summary,
                              storeUp) :
           /\ o.last_id <= MaxRows
           /\ \A r \in o.cache : r.access_count <= MaxCount
           /\ song_cache' = o.cache
           /\ last_id' = o.last_id
    /\ pc' = [pc EXCEPT ![p] = "idle"]
    /\ frame' = [frame EXCEPT ![p] = Idle]
    /\ IF storeUp
       THEN Returned(p, frame[p], summary, storeUp, analyze_result(summary))
       ELSE Raised(p, frame[p], <<"database is locked">>)
    /\ UNCHANGED <<now, ret, botVars>>

(* interpret_lyrics returns; the result is stored and returned. *)
ComputeReturns(p, summary, storeUp) ==
    /\ pc[p] = "compute"
    /\ \E o \in analyze_store(song_cache, last_id, now, frame[p].artist,
                              frame[p].song_name, frame[p].lyrics, summary,
                              storeUp) :
           /\ o.last_id <= MaxRows
           /\ \A r \in o.cache : r.access_count <= MaxCount
           /\ song_cache' = o.cache
           /\ last_id' = o.last_id
    /\ pc' = [pc EXCEPT ![p] = "idle"]
    /\ frame' = [frame EXCEPT ![p] = Idle]
    /\ Returned(p, frame[p], summary, storeUp, analyze_result(summary))
    /\ UNCHANGED <<now, ret, botVars>>

(* interpret_lyrics raises and the lyrics fetched are cached alone. *)
ComputeRaisesCaching(p, m) ==
    /\ pc[p] = "compute"
    /\ \E o \in cache_song(song_cache, last_id, now, frame[p].artist,
                           frame[p].song_name, frame[p].lyrics, None) :
           /\ o.last_id <= MaxRows
           /\ \A r \in o.cache : r.access_count <= MaxCount
           /\ song_cache' = o.cache
           /\ last_id' = o.last_id
    /\ pc' = [pc EXCEPT ![p] = "idle"]
    /\ frame' = [frame EXCEPT ![p] = Idle]
    /\ Raised(p, frame[p], m)
    /\ UNCHANGED <<now, ret, botVars>>

(* interpret_lyrics raises; analyze lets the exception through. *)
ComputeRaises(p, m) ==
    /\ pc[p] = "compute"
    /\ pc' = [pc EXCEPT ![p] = "idle"]
    /\ frame' = [frame EXCEPT ![p] = Idle]
    /\ Raised(p, frame[p], m)
    /\ UNCHANGED <<storeVars, now, ret, botVars>>

----------------------------------------------------------------------------
(* Tables users and query_history. *)

NoRow == [present |-> FALSE]

(* An optional value is a sequence: <<>> for None (NULL), <<v>> for v. *)
Nothing == <<>>
Some(v) == <<v>>

(* create_or_update_user: UPDATE ... last_activity, or INSERT with         *)
(* total_requests DEFAULT 0.  The name columns are left out.               *)
create_or_update_user(tbl, t, user_id) ==
    IF tbl[user_id].present
    THEN [tbl EXCEPT ![user_id].last_activity = SqlTimestamp(t)]
    ELSE [tbl EXCEPT ![user_id] =
             [present |-> TRUE, created_at |-> SqlTimestamp(t),
              last_activity |-> SqlTimestamp(t), total_requests |-> 0]]

(* increment_user_requests: an UPDATE ... WHERE user_id = ?, which changes *)
(* nothing when there is no such row.                                      *)
increment_user_requests(tbl, t, user_id) ==
    IF tbl[user_id].present
    THEN [tbl EXCEPT ![user_id].total_requests = @ + 1,
                     ![user_id].last_activity = SqlTimestamp(t)]
    ELSE tbl

(* add_query_to_history storing the artist and title as the cache's lookup *)
(* folds them.                                                             *)
add_query_to_history_folded(hist, tbl, t, user_id, artist, song_name, success, error_message) ==
    [history |-> Append(hist, [id |-> Len(hist) + 1, user_id |-> user_id,
                               artist |-> PyNorm(artist),
                               song_name |-> PyNorm(song_name),
                               query_date |-> SqlTimestamp(t),
                               success |-> success,
                               error_message |-> error_message]),
     users |-> increment_user_requests(tbl, t, user_id)]

(* add_query_to_history: the INSERT (foreign keys are not enforced: no     *)
(* PRAGMA foreign_keys), then the user's counter.                          *)
add_query_to_history(hist, tbl, t, user_id, artist, song_name, success, error_message) ==
    [history |-> Append(hist, [id |-> Len(hist) + 1, user_id |-> user_id,
                               artist |-> artist, song_name |-> song_name,
                               query_date |-> SqlTimestamp(t),
                               success |-> success,
                               error_message |-> error_message]),
     users |-> increment_user_requests(tbl, t, user_id)]

----------------------------------------------------------------------------
(* The Telegram conversation (bot.py).  The Application is built without   *)
(* concurrent_updates: a handler runs to its end before the next update is *)
(* taken, so each handler is one step.  A conversation belongs to a chat   *)
(* and a user; user_data belongs to the user.                              *)

Users == {"u1", "u2"}
Convs == {"c1", "c2", "c3"}

(* u1 writes in two chats, u2 in one. *)
UserOf(c) == IF c = "c3" THEN "u2" ELSE "u1"

NoData == [has_artist |-> FALSE]

(* create_or_update_user and add_query_to_history called directly. *)
CreateOrUpdateUser(user_id) ==
    /\ users' = create_or_update_user(users, now, user_id)
    /\ ret' = [op |-> "user"]
    /\ UNCHANGED <<storeVars, now, query_history, conv, user_data, reply,
                   pipeVars>>

AddQueryToHistory(user_id, artist, song_name, success, error_message) ==
    LET h == add_query_to_history(query_history, users, now, user_id,
                                  artist, song_name, success, error_message)
    IN  /\ Len(query_history) < MaxHistory
        /\ query_history' = h.history
        /\ users' = h.users
        /\ ret' = [op |-> "history", id |-> Len(h.history)]
        /\ UNCHANGED <<storeVars, now, conv, user_data, reply, pipeVars>>

(* /start *)
Start(c) ==
    /\ users' = create_or_update_user(users, now, UserOf(c))
    /\ reply' = "hello"
    /\ UNCHANGED <<storeVars, now, ret, query_history, conv, user_data,
                   pipeVars>>

(* /analyze, the conversation's entry point. *)
AnalyzeStart(c) ==
    /\ conv[c] = "END"
    /\ users' = create_or_update_user(users, now, UserOf(c))
    /\ conv' = [conv EXCEPT ![c] = "ARTIST"]
    /\ reply' = "artist?"
    /\ UNCHANGED <<storeVars, now, ret, query_history, user_data, pipeVars>>

ArtistReceived(c, text) ==
    /\ conv[c] = "ARTIST"
    /\ user_data' = [user_data EXCEPT
                        ![UserOf(c)] = [has_artist |-> TRUE, artist |-> text]]
    /\ conv' = [conv EXCEPT ![c] = "SONG"]
    /\ reply' = "song?"
    /\ UNCHANGED <<storeVars, now, ret, users, query_history, pipeVars>>

(* /cancel, the conversation's fallback. *)
Cancel(c) ==
    /\ conv[c] \in {"ARTIST", "SONG"}
    /\ user_data' = [user_data EXCEPT ![UserOf(c)] = NoData]
    /\ conv' = [conv EXCEPT ![c] = "END"]
    /\ reply' = "cancelled"
    /\ UNCHANGED <<storeVars, now, ret, users, query_history, pipeVars>>

(* song_received, lines 89-93: user_data holds no artist. *)
SongReceivedNoArtist(c, text) ==
    /\ conv[c] = "SONG"
    /\ ~user_data[UserOf(c)].has_artist
    /\ reply' = "start again"
    /\ conv' = [conv EXCEPT ![c] = "END"]
    /\ UNCHANGED <<storeVars, now, ret, users, query_history, user_data,
                   pipeVars>>

(* How a call of add_query_to_history ends: it returns, or its INSERT      *)
(* raises, or the INSERT is committed (Database.execute commits each       *)
(* statement) and the UPDATE of increment_user_requests raises.            *)
LedgerOutcomes == {"ok", "insert raises", "counter raises"}

(* add_query_to_history as one transaction: a failure of either statement  *)
(* leaves no row.                                                          *)
add_query_to_history_atomic(hist, tbl, t, user_id, artist, song_name, success, error_message, ledger) ==
    LET h == add_query_to_history(hist, tbl, t, user_id, artist, song_name,
                                  success, error_message)
    IN  IF ledger = "ok"
        THEN [history |-> h.history, users |-> h.users, raised |-> FALSE]
        ELSE [history |-> hist, users |-> tbl, raised |-> TRUE]

add_query_to_history_outcome(hist, tbl, t, user_id, artist, song_name, success, error_message, ledger) ==
    LET h == add_query_to_history(hist, tbl, t, user_id, artist, song_name,
                                  success, error_message)
    IN  IF ledger = "ok"
        THEN [history |-> h.history, users |-> h.users, raised |-> FALSE]
        ELSE IF ledger = "counter raises"
        THEN [history |-> h.history, users |-> tbl, raised |-> TRUE]
        ELSE [history |-> hist, users |-> tbl, raised |-> TRUE]

(* The finally block without user_data.clear(). *)
FinallyKeepsArtist(c, artist, song_name, success, error_message, ledger) ==
    LET h == add_query_to_history_outcome(query_history, users, now,
                                          UserOf(c), artist, song_name,
                                          success, error_message, ledger)
    IN  /\ Len(query_history) < MaxHistory
        /\ query_history' = h.history
        /\ users' = h.users
        /\ user_data' = user_data
        /\ conv' = [conv EXCEPT ![c] = "END"]

(* song_received's finally: the history row (an exception of               *)
(* add_query_to_history is caught and logged), user_data.clear(), END.     *)
Finally(c, artist, song_name, success, error_message, ledger) ==
    LET h == add_query_to_history_outcome(query_history, users, now,
                                          UserOf(c), artist, song_name,
                                          success, error_message, ledger)
    IN  /\ Len(query_history) < MaxHistory
        /\ query_history' = h.history
        /\ users' = h.users
        /\ user_data' = [user_data EXCEPT ![UserOf(c)] = NoData]
        /\ conv' = [conv EXCEPT ![c] = "END"]

(* song_received when analyze() is served from the cache.  The dict        *)
(* analyze() returns always has a summary, so lines 106-111 are not taken. *)
SongReceivedServed(c, text, ledger) ==
    /\ conv[c] = "SONG"
    /\ user_data[UserOf(c)].has_artist
    /\ LET artist == user_data[UserOf(c)].artist
           a == analyze_lookup(song_cache, now, artist, text)
       IN  /\ a.served
           /\ \A r \in a.cache : r.access_count <= MaxCount
           /\ song_cache' = a.cache
           /\ reply' = "summary, from cache"
           /\ Finally(c, artist, text, TRUE, Nothing, ledger)
    /\ UNCHANGED <<last_id, now, ret, pipeVars>>

(* song_received when analyze() fetches, computes and stores. *)
SongReceivedAnalyzed(c, text, lyrics, summary, storeUp, ledger) ==
    /\ conv[c] = "SONG"
    /\ user_data[UserOf(c)].has_artist
    /\ LET artist == user_data[UserOf(c)].artist
           a == analyze_lookup(song_cache, now, artist, text)
       IN  /\ ~a.served
           /\ \E o \in analyze_store(a.cache, last_id, now, artist, text,
                                     lyrics, summary, storeUp) :
                  /\ o.last_id <= MaxRows
                  /\ \A r \in o.cache : r.access_count <= MaxCount
                  /\ song_cache' = o.cache
                  /\ last_id' = o.last_id
           /\ reply' = "summary, new"
           /\ Finally(c, artist, text, TRUE, Nothing, ledger)
    /\ UNCHANGED <<now, ret, pipeVars>>

(* song_received when fetch_lyrics raises: error_message = str(e) of the   *)
(* exception analyze() wraps.                                              *)
SongReceivedFetchFailed(c, text, m, ledger) ==
    /\ conv[c] = "SONG"
    /\ user_data[UserOf(c)].has_artist
    /\ LET artist == user_data[UserOf(c)].artist
           a == analyze_lookup(song_cache, now, artist, text)
       IN  /\ ~a.served
           /\ \A r \in a.cache : r.access_count <= MaxCount
           /\ song_cache' = a.cache
           /\ reply' = "error"
           /\ Finally(c, artist, text, FALSE, Some(GeniusError(m)),
                      ledger)
    /\ UNCHANGED <<last_id, now, ret, pipeVars>>

(* song_received when interpret_lyrics raises: error_message = str(e) of   *)
(* that exception.                                                         *)
SongReceivedComputeFailed(c, text, m, ledger) ==
    /\ conv[c] = "SONG"
    /\ user_data[UserOf(c)].has_artist
    /\ LET artist == user_data[UserOf(c)].artist
           a == analyze_lookup(song_cache, now, artist, text)
       IN  /\ ~a.served
           /\ \A r \in a.cache : r.access_count <= MaxCount
           /\ song_cache' = a.cache
           /\ reply' = "error"
           /\ Finally(c, artist, text, FALSE, Some(m), ledger)
    /\ UNCHANGED <<last_id, now, ret, pipeVars>>

----------------------------------------------------------------------------
(* The state after construction. *)

(* A fresh database (init_db), the clock at its first instant, no          *)
(* conversation and no call under way.                                     *)
Init ==
    /\ song_cache = {}
    /\ last_id = 0
    /\ now = <<0, 0>>
    /\ ret = NoRet
    /\ users = [u \in Users |-> NoRow]
    /\ query_history = <<>>
    /\ conv = [c \in Convs |-> "END"]
    /\ user_data = [u \in Users |-> NoData]
    /\ reply = "none"
    /\ pc = [p \in Procs |-> "idle"]
    /\ frame = [p \in Procs |-> Idle]
    /\ calls = <<>>

(* The bot: the updates of every conversation, one handler at a time. *)
Next ==
    \E c \in Convs :
        \/ Start(c)
        \/ AnalyzeStart(c)
        \/ \E text \in BotArtists : ArtistReceived(c, text)
        \/ Cancel(c)
        \/ \E text \in OneSong : SongReceivedNoArtist(c, text)
        \/ \E text \in OneSong : SongReceivedServed(c, text, "ok")
        \/ \E text \in OneSong, l \in BotLyrics, m \in BotSummaries :
               SongReceivedAnalyzed(c, text, l, m, TRUE, "ok")
        \/ \E text \in OneSong, m \in ErrMsgs :
               SongReceivedFetchFailed(c, text, m, "ok")
        \/ \E text \in OneSong, m \in ErrMsgs :
               SongReceivedComputeFailed(c, text, m, "ok")

Spec == Init /\ [][Next]_vars

(* The bot while statements of add_query_to_history may fail, in the two   *)
(* chats of one user and for one artist.                                   *)
FaultConvs == {c \in Convs : UserOf(c) = "u1"}
FaultArtists == {<<65>>}

BotFaultNext ==
    \E c \in FaultConvs :
        \/ Start(c)
        \/ AnalyzeStart(c)
        \/ \E text \in FaultArtists : ArtistReceived(c, text)
        \/ Cancel(c)
        \/ \E text \in OneSong : SongReceivedNoArtist(c, text)
        \/ \E text \in OneSong, g \in LedgerOutcomes :
               SongReceivedServed(c, text, g)
        \/ \E text \in OneSong, l \in BotLyrics, m \in BotSummaries,
              g \in LedgerOutcomes :
               SongReceivedAnalyzed(c, text, l, m, TRUE, g)
        \/ \E text \in OneSong, m \in ErrMsgs, g \in LedgerOutcomes :
               SongReceivedFetchFailed(c, text, m, g)
        \/ \E text \in OneSong, m \in ErrMsgs, g \in LedgerOutcomes :
               SongReceivedComputeFailed(c, text, m, g)

BotFaultSpec == Init /\ [][BotFaultNext]_vars

(* The store under every sequence of lookups and writes, for every   *)
(* spelling of the key; no time passes.                                    *)
KeyNext ==
    \/ \E a \in RawArtists, s \in RawSongs : GetCachedSong(a, s)
    \/ \E a \in RawArtists, s \in RawSongs, l \in {"L1", None},
          m \in {"S1"} : CacheSong(a, s, l, m)

KeySpec == Init /\ [][KeyNext]_vars

(* The store under every sequence of its operations as time passes. *)
StoreNext ==
    \/ \E a \in SomeArtists, s \in OneSong : GetCachedSong(a, s)
    \/ \E a \in SomeArtists, s \in OneSong : CacheSong(a, s, "L1", "S1")
    \/ \E limit \in 0..MaxLimit : GetPopularSongs(limit)
    \/ \E days \in 1..MaxDay : CleanOldCache(days)
    \/ Tick

StoreSpec == Init /\ [][StoreNext]_vars

(* analyze() called by concurrent requests that yield while they wait for  *)
(* the lyrics and for the summary.                                         *)
PipeNext ==
    \E p \in Procs :
        \/ \E a \in SomeArtists, s \in OneSong : AnalyzeServed(p, a, s)
        \/ \E a \in SomeArtists, s \in OneSong : AnalyzeMissed(p, a, s)
        \/ \E l \in Lyrics : FetchReturns(p, l)
        \/ \E m \in ErrMsgs : FetchRaises(p, m)
        \/ \E m \in Summaries : ComputeReturns(p, m, TRUE)
        \/ \E m \in ErrMsgs : ComputeRaises(p, m)

PipeSpec == Init /\ [][PipeNext]_vars

(* The tables users and query_history under every sequence of contacts and *)
(* appends as time passes.                                                 *)
LedgerNext ==
    \/ \E u \in Users : CreateOrUpdateUser(u)
    \/ \E u \in Users, a \in BotArtists, s \in OneSong :
           AddQueryToHistory(u, a, s, TRUE, Nothing)
    \/ \E u \in Users, a \in BotArtists, s \in OneSong, m \in ErrMsgs :
           AddQueryToHistory(u, a, s, FALSE, Some(m))
    \/ Tick

LedgerSpec == Init /\ [][LedgerNext]_vars

(* analyze() called by concurrent requests while statements of the store   *)
(* may fail: the lookup of a call, or its cache_song.                      *)
FaultNext ==
    \E p \in Procs :
        \/ \E a \in BotArtists, s \in OneSong : AnalyzeServed(p, a, s)
        \/ \E a \in BotArtists, s \in OneSong : AnalyzeMissed(p, a, s)
        \/ \E a \in BotArtists, s \in OneSong, m \in StoreErrMsgs :
               AnalyzeLookupRaises(p, a, s, m)
        \/ \E l \in BotLyrics : FetchReturns(p, l)
        \/ \E m \in ErrMsgs : FetchRaises(p, m)
        \/ \E m \in BotSummaries, storeUp \in BOOLEAN :
               ComputeReturns(p, m, storeUp)
        \/ \E m \in ErrMsgs : ComputeRaises(p, m)

FaultSpec == Init /\ [][FaultNext]_vars

----------------------------------------------------------------------------
(* The properties checked. *)

(* The specification's key normalizer: leading and trailing whitespace     *)
(* trimmed, letters folded to lower case, the rest untouched.              *)
IsBlank(c) == c \in {9, 10, 11, 12, 13, 32}
FoldChar(c) == IF c \in 65..90 \/ c \in 1040..1071 THEN c + 32 ELSE c
Trimmed(s) ==
    LET kept == {i \in 1..Len(s) : ~IsBlank(s[i])}
    IN  IF kept = {} THEN <<>>
        ELSE SubSeq(s, CHOOSE i \in kept : \A j \in kept : i <= j,
                       CHOOSE i \in kept : \A j \in kept : i >= j)
NormText(s) == [i \in 1..Len(Trimmed(s)) |-> FoldChar(Trimmed(s)[i])]
NormKey(artist, song_name) == <<NormText(artist), NormText(song_name)>>
KeyOf(r) == NormKey(r.artist, r.song_name)
EntriesOf(cache, key) == {r \in cache : KeyOf(r) = key}
RawPairs == RawArtists \X RawSongs
Range(f) == {f[i] : i \in DOMAIN f}

(* C1: a cache_song for a normalized key that already holds an entry (the  *)
(* second of two concurrent puts, which run one after the other in either  *)
(* order) raises nothing and leaves exactly one entry for the key, with an *)
(* access counter of at least 2.                                           *)
C1_UpsertRace ==
    [][\A n \in song_cache' \ song_cache :
          (ret'.op = "put" /\ EntriesOf(song_cache, KeyOf(n)) # {}) =>
              /\ ~ret'.raised
              /\ Cardinality(EntriesOf(song_cache', KeyOf(n))) = 1
              /\ n.access_count >= 2]_vars

(* C2: the cache holds at most one entry per normalized (artist, title). *)
C2_OneEntryPerKey ==
    \A r, q \in song_cache : KeyOf(r) = KeyOf(q) => r = q

(* C3: when the only two analyze calls made on a fresh store are for the   *)
(* same song, began before either completed (so both missed), and both     *)
(* returned, both were not served from cache and the store holds exactly   *)
(* one entry for the song, with access counter 2.                          *)
C3_ConcurrentMisses ==
    (/\ Len(calls) = 2 /\ InFlight = {}
     /\ calls[1].start = 0 /\ calls[2].start = 0
     /\ calls[1].status = "returned" /\ calls[2].status = "returned"
     /\ NormKey(calls[1].artist, calls[1].song_name)
            = NormKey(calls[2].artist, calls[2].song_name))
    => /\ ~calls[1].data.from_cache
       /\ ~calls[2].data.from_cache
       /\ \E r \in song_cache :
             /\ EntriesOf(song_cache, NormKey(calls[1].artist,
                                              calls[1].song_name)) = {r}
             /\ r.access_count = 2

(* C4: when analyze(a, t) is called on a fresh store and returns, and is   *)
(* then called again with the same a and t, the first call is not served   *)
(* from cache, the second returns and is served from cache, and both       *)
(* return the same summary.                                                *)
C4_Idempotence ==
    (/\ Len(calls) >= 2
     /\ calls[1].start = 0 /\ calls[2].start = 1
     /\ calls[1].status = "returned"
     /\ calls[1].artist = calls[2].artist
     /\ calls[1].song_name = calls[2].song_name)
    => /\ ~calls[1].data.from_cache
       /\ calls[2].status = "returned"
       /\ calls[2].data.from_cache
       /\ calls[2].data.summary = calls[1].data.summary

(* C5: what analyze returns has the three fields summary, lyrics and       *)
(* from_cache: on a miss the computed summary, the fetched lyrics and      *)
(* FALSE; on a hit the stored summary, the stored lyrics and TRUE.         *)
C5_ResultFields ==
    \A i \in DOMAIN calls :
        calls[i].status = "returned" =>
            /\ DOMAIN calls[i].data = {"summary", "lyrics", "from_cache"}
            /\ IF calls[i].hit
               THEN /\ calls[i].data.summary = calls[i].row.analysis_summary
                    /\ calls[i].data.lyrics = calls[i].row.lyrics
                    /\ calls[i].data.from_cache
               ELSE /\ calls[i].data.summary = calls[i].computed
                    /\ calls[i].data.lyrics = calls[i].fetched
                    /\ ~calls[i].data.from_cache

(* No call is under way, and the calls made are one that missed and        *)
(* returned, then only calls for the same song that were served from cache.*)
MissThenHits ==
    /\ InFlight = {}
    /\ Len(calls) >= 1
    /\ calls[1].status = "returned" /\ ~calls[1].hit
    /\ \A i \in 2..Len(calls) :
          /\ calls[i].status = "returned" /\ calls[i].hit
          /\ NormKey(calls[i].artist, calls[i].song_name)
                 = NormKey(calls[1].artist, calls[1].song_name)

(* C6: on a fresh store, after one analyze call that missed and stored its *)
(* result and k calls for the same song served from cache, the song has    *)
(* one entry and its access_count is 1 + k.                                *)
C6_AccessCount ==
    MissThenHits =>
        \E r \in song_cache :
            /\ EntriesOf(song_cache, NormKey(calls[1].artist,
                                             calls[1].song_name)) = {r}
            /\ r.access_count = 1 + (Len(calls) - 1)

(* A miss and two hits, the hits under another spelling than the miss. *)
C6_Witness ==
    /\ MissThenHits
    /\ Len(calls) = 3
    /\ calls[2].artist # calls[1].artist
    /\ \E r \in song_cache : r.access_count = 3

(* C7: two lookups whose raw (artist, title) differ only in letter case    *)
(* and in leading and trailing whitespace both miss or return the same     *)
(* entry; two lookups whose pairs differ after trimming and lower-casing   *)
(* never return the same entry.                                            *)
C7_KeyNormalization ==
    LET lookups == {[pair |-> p, key |-> NormKey(p[1], p[2]),
                     got |-> get_cached_song(song_cache, now, p[1], p[2])]
                        : p \in RawPairs}
    IN  \A g, h \in lookups :
            IF g.key = h.key
            THEN LET h2 == get_cached_song(g.got.cache, now,
                                           h.pair[1], h.pair[2])
                 IN  /\ g.got.found = h.got.found
                     /\ g.got.found = h2.found
                     /\ g.got.found => /\ h.got.row = g.got.row
                                       /\ h2.row.id = g.got.row.id
            ELSE (g.got.found /\ h.got.found)
                     => h.got.row.id # g.got.row.id

(* A lookup has returned an entry that is stored under another spelling    *)
(* than the one asked for, and that two different spellings find.          *)
C7_Witness ==
    /\ ret.op = "get" /\ ret.found
    /\ \E p, q \in RawPairs :
          /\ p # q
          /\ <<ret.row.artist, ret.row.song_name>> \notin {p, q}
          /\ NormKey(p[1], p[2]) = NormKey(q[1], q[2])
          /\ get_cached_song(song_cache, now, p[1], p[2]).found
          /\ get_cached_song(song_cache, now, q[1], q[2]).found
          /\ get_cached_song(song_cache, now, p[1], p[2]).row.id = ret.row.id

(* An entry last accessed at least `days` days before t.  The clock has a  *)
(* fraction of a second that the stored text has not, so an entry accessed *)
(* `days` days ago to the second is older than the threshold.              *)
OlderThan(r, t, days) ==
    ~Earlier(MinusDays(t, days), ParseTimestamp(r.last_accessed))

(* C8: clean_old_cache deletes exactly the entries last accessed before    *)
(* the age threshold whose access counter is below 5, and returns the      *)
(* number it deleted.                                                      *)
C8_EvictStale ==
    [][(ret'.op = "clean" /\ <<song_cache, ret>>' # <<song_cache, ret>>) =>
          /\ song_cache' \subseteq song_cache
          /\ song_cache \ song_cache' =
                 {r \in song_cache : /\ OlderThan(r, now, ret'.days)
                                     /\ r.access_count < PopularityThreshold}
          /\ ret'.deleted_count = Cardinality(song_cache \ song_cache')]_vars

(* x ranks no lower than y: a higher access counter, or the same counter   *)
(* and a last access that is not earlier.                                  *)
RanksNoLower(x, y) ==
    \/ x.access_count > y.access_count
    \/ /\ x.access_count = y.access_count
       /\ ~Earlier(ParseTimestamp(x.last_accessed),
                   ParseTimestamp(y.last_accessed))

(* C9: get_popular_songs(limit) returns at most limit entries of the       *)
(* cache, by access counter descending and then by last access, the most   *)
(* recent first; every entry it leaves out ranks no higher than every      *)
(* entry it returns.                                                       *)
C9_Popular ==
    ret.op = "popular" =>
        /\ Len(ret.list) <= ret.limit
        /\ Range(ret.list) \subseteq {PopularColumns(r) : r \in song_cache}
        /\ \A i, j \in DOMAIN ret.list :
              i < j => /\ ret.list[i] # ret.list[j]
                       /\ RanksNoLower(ret.list[i], ret.list[j])
        /\ \A r \in song_cache :
              PopularColumns(r) \notin Range(ret.list) =>
                  /\ Len(ret.list) = ret.limit
                  /\ \A i \in DOMAIN ret.list : RanksNoLower(ret.list[i], r)

(* Two entries with the same counter and different last accesses, and a    *)
(* list of one: the tie is broken and an entry is left out.                *)
C9_Witness ==
    /\ ret.op = "popular" /\ Len(ret.list) = 1
    /\ \E r, q \in song_cache :
          /\ r.access_count = q.access_count /\ r.access_count > 1
          /\ r.last_accessed # q.last_accessed

(* C10: a song_received whose analyze fails appends exactly one history    *)
(* row, with success false and an error message that is not empty, and     *)
(* adds no entry to the cache.                                             *)
C10_FailedAnalyze ==
    [][(reply' = "error" /\ \E c \in Convs : conv[c] = "SONG"
                                             /\ conv'[c] = "END") =>
          /\ Len(query_history') = Len(query_history) + 1
          /\ SubSeq(query_history', 1, Len(query_history)) = query_history
          /\ query_history'[Len(query_history')].success = FALSE
          /\ query_history'[Len(query_history')].error_message # Nothing
          /\ query_history'[Len(query_history')].error_message[1] # <<>>
          /\ {r.id : r \in song_cache'} \subseteq {r.id : r \in song_cache}
      ]_vars

(* C11: when cache_song fails after the lyrics were fetched and the        *)
(* summary computed, analyze does not raise: the call returns the computed *)
(* summary with from_cache false.                                          *)
C11_WriteFailure ==
    [][\A p \in Procs, m \in BotSummaries :
          ComputeReturns(p, m, FALSE) =>
              /\ Len(calls') = Len(calls) + 1
              /\ calls'[Len(calls')].proc = p
              /\ calls'[Len(calls')].status = "returned"
              /\ calls'[Len(calls')].data.summary = m
              /\ calls'[Len(calls')].data.from_cache = FALSE]_vars

(* A call whose cache_song failed has returned its summary, and the cache  *)
(* holds no entry for what it asked.                                       *)
C11_Witness ==
    \E i \in DOMAIN calls :
        /\ calls[i].status = "returned" /\ ~calls[i].hit
        /\ ~calls[i].stored
        /\ calls[i].data.summary = "S1"
        /\ \A r \in song_cache : r.artist # calls[i].artist

(* C12: a get_cached_song that fails during analyze counts as a miss: no   *)
(* call of analyze raises the store's error.                               *)
C12_ReadFailure ==
    \A i \in DOMAIN calls :
        calls[i].status = "raised" => calls[i].error \notin StoreErrMsgs

(* C13: a call whose lookup finds an entry with a summary that is not      *)
(* empty returns at once with from_cache true: it waits for neither        *)
(* collaborator and writes nothing but the lookup's own counter update.    *)
(* A call goes to fetch_lyrics only when its lookup missed or found an     *)
(* empty summary, and to interpret_lyrics only from fetch_lyrics.          *)
C13_HitNoCalls ==
    [][\A p \in Procs :
          /\ \A a \in SomeArtists, t \in OneSong :
                LET g == get_cached_song(song_cache, now, a, t)
                IN  (/\ AnalyzeServed(p, a, t) \/ AnalyzeMissed(p, a, t)
                     /\ g.found
                     /\ g.row.analysis_summary \notin {None, ""})
                    => /\ pc'[p] = "idle"
                       /\ Len(calls') = Len(calls) + 1
                       /\ calls'[Len(calls')].status = "returned"
                       /\ calls'[Len(calls')].data.from_cache
                       /\ song_cache' = g.cache
                       /\ last_id' = last_id
          /\ (pc[p] = "idle" /\ pc'[p] # "idle") =>
                LET g == get_cached_song(song_cache, now, frame'[p].artist,
                                         frame'[p].song_name)
                IN  /\ pc'[p] = "fetch"
                    /\ ~g.found \/ g.row.analysis_summary \in {None, ""}
          /\ (pc[p] # "compute" /\ pc'[p] = "compute") => pc[p] = "fetch"
      ]_vars

(* A call has been served from cache after the call that stored the entry, *)
(* with nothing under way and one entry written.                           *)
C13_Witness ==
    /\ InFlight = {}
    /\ Len(calls) = 2
    /\ calls[1].status = "returned" /\ ~calls[1].hit
    /\ calls[2].status = "returned" /\ calls[2].hit
    /\ calls[2].data.from_cache
    /\ last_id = 1

(* What an entry holds apart from its access bookkeeping. *)
Content(cache) ==
    {[id |-> r.id, artist |-> r.artist, song_name |-> r.song_name,
      lyrics |-> r.lyrics, analysis_summary |-> r.analysis_summary]
         : r \in cache}

(* C14: when fetch_lyrics or interpret_lyrics fails, the call raises the   *)
(* error and stores nothing.  No step but the return of a call that        *)
(* fetched and computed creates an entry or changes the lyrics or summary  *)
(* of one.                                                                 *)
C14_FailureStoresNothing ==
    [][/\ \A p \in Procs, m \in ErrMsgs :
             (FetchRaises(p, m) \/ ComputeRaises(p, m)) =>
                 /\ Len(calls') = Len(calls) + 1
                 /\ calls'[Len(calls')].proc = p
                 /\ calls'[Len(calls')].status = "raised"
                 /\ calls'[Len(calls')].error \in {m, GeniusError(m)}
                 /\ song_cache' = song_cache
                 /\ last_id' = last_id
       /\ Content(song_cache') # Content(song_cache) =>
             /\ Len(calls') = Len(calls) + 1
             /\ calls'[Len(calls')].status = "returned"
             /\ ~calls'[Len(calls')].hit
      ]_vars

(* interpret_lyrics has failed in a call for a song whose entry holds      *)
(* lyrics and an empty summary; the entry is there as it was.              *)
C14_Witness ==
    \E i \in DOMAIN calls :
        /\ calls[i].status = "raised"
        /\ calls[i].error \in ErrMsgs
        /\ \E r \in song_cache :
              /\ r.artist = calls[i].artist
              /\ r.analysis_summary = ""
              /\ r.lyrics = "L1"
              /\ r.access_count = 2

(* The history rows of a requester. *)
RecordsOf(u) == {i \in DOMAIN query_history : query_history[i].user_id = u}

(* C15: after any sequence of contacts and appends, the request counter of *)
(* every requester that has a profile equals the number of history rows    *)
(* stored for that requester.                                              *)
C15_CounterMatchesHistory ==
    \A u \in Users :
        users[u].present => users[u].total_requests = Cardinality(RecordsOf(u))

(* C16: cache_song for a normalized key that holds an entry overwrites the *)
(* entry's lyrics and summary, adds exactly 1 to its access counter,       *)
(* refreshes last_accessed and returns the entry's id; for a key that      *)
(* holds none it creates an entry with access counter 1 and returns the    *)
(* new id.                                                                 *)
C16_PutOverwrites ==
    [][\A a \in SomeArtists, t \in OneSong :
          CacheSong(a, t, "L1", "S1") =>
              LET old == EntriesOf(song_cache, NormKey(a, t))
              IN  /\ ~ret'.raised
                  /\ IF old # {}
                     THEN \E r \in old :
                              /\ song_cache' = (song_cache \ {r}) \cup
                                     {[r EXCEPT
                                         !.lyrics = "L1",
                                         !.analysis_summary = "S1",
                                         !.access_count = @ + 1,
                                         !.last_accessed = SqlTimestamp(now)]}
                              /\ ret'.id = r.id
                     ELSE \E n \in song_cache' \ song_cache :
                              /\ song_cache' = song_cache \cup {n}
                              /\ n.id \notin {r.id : r \in song_cache}
                              /\ n.access_count = 1
                              /\ n.lyrics = "L1"
                              /\ n.analysis_summary = "S1"
                              /\ ret'.id = n.id]_vars

(* C17: a get_cached_song that finds an entry returns it as it was read,   *)
(* adds exactly 1 to its access counter and sets its last_accessed to the  *)
(* time of the call, changing nothing else, and the next lookup reads the  *)
(* counter so raised; one that finds nothing changes no entry.             *)
C17_GetCounts ==
    [][\A a \in SomeArtists, t \in OneSong :
          GetCachedSong(a, t) =>
              IF ret'.found
              THEN LET next == get_cached_song(song_cache', now, a, t)
                   IN  /\ ret'.row \in song_cache
                       /\ song_cache' = (song_cache \ {ret'.row}) \cup
                              {[ret'.row EXCEPT
                                  !.access_count = @ + 1,
                                  !.last_accessed = SqlTimestamp(now)]}
                       /\ next.found
                       /\ next.row.id = ret'.row.id
                       /\ next.row.access_count = ret'.row.access_count + 1
              ELSE song_cache' = song_cache]_vars

(* A lookup has returned an entry with the counter it read, 2, while the   *)
(* entry now holds 3 and a later last_accessed.                            *)
C17_Witness ==
    /\ ret.op = "get" /\ ret.found
    /\ ret.row.access_count = 2
    /\ \E r \in song_cache :
          /\ r.id = ret.row.id
          /\ r.access_count = 3
          /\ Earlier(ParseTimestamp(ret.row.last_accessed),
                     ParseTimestamp(r.last_accessed))

(* The ids of the entries of a cache, and the entry of an id. *)
Ids(cache) == {r.id : r \in cache}
EntryOf(cache, id) == CHOOSE r \in cache : r.id = id

(* C18: an entry appears only by a cache_song, with access counter 1; it   *)
(* disappears only by a clean_old_cache called when the entry is older     *)
(* than the age threshold and its counter is below the popularity          *)
(* threshold; lookups and writes remove nothing.                           *)
C18_EntryLifecycle ==
    [][/\ \A id \in Ids(song_cache') \ Ids(song_cache) :
             /\ ret'.op = "put"
             /\ EntryOf(song_cache', id).access_count = 1
       /\ \A id \in Ids(song_cache) \ Ids(song_cache') :
             /\ ret'.op = "clean"
             /\ OlderThan(EntryOf(song_cache, id), now, ret'.days)
             /\ EntryOf(song_cache, id).access_count < PopularityThreshold
      ]_vars

(* C19: every entry has an access counter of at least 1 and a last access  *)
(* not earlier than its creation, and from one state to the next the       *)
(* counter of an entry that stays does not go down.                        *)
C19_CounterAndTimes ==
    /\ [](\A r \in song_cache :
             /\ r.access_count >= 1
             /\ ~Earlier(ParseTimestamp(r.last_accessed),
                         ParseTimestamp(r.cached_at)))
    /\ [][\A id \in Ids(song_cache) \cap Ids(song_cache') :
             EntryOf(song_cache', id).access_count
                 >= EntryOf(song_cache, id).access_count]_vars

(* An entry read or rewritten after the second it was created in. *)
C19_Witness ==
    \E r \in song_cache :
        /\ r.access_count >= 3
        /\ Earlier(ParseTimestamp(r.cached_at),
                   ParseTimestamp(r.last_accessed))

(* song_received runs in conversation c with an artist set and the title   *)
(* `text`, whatever analyze() does.                                        *)
SongReceivedAttempt(c, text) ==
    \/ SongReceivedServed(c, text, "ok")
    \/ \E l \in BotLyrics, m \in BotSummaries :
           SongReceivedAnalyzed(c, text, l, m, TRUE, "ok")
    \/ \E m \in ErrMsgs : SongReceivedFetchFailed(c, text, m, "ok")
    \/ \E m \in ErrMsgs : SongReceivedComputeFailed(c, text, m, "ok")

(* C20: every song_received that has an artist appends exactly one history *)
(* row, with the requester, the artist and the title as they were typed    *)
(* and the outcome of the attempt; no other step appends a row, and no     *)
(* step changes or removes a row already written.                          *)
C20_HistoryAppendOnly ==
    [][/\ \A c \in Convs, text \in OneSong :
             SongReceivedAttempt(c, text) =>
                 LET new == query_history'[Len(query_history')]
                 IN  /\ Len(query_history') = Len(query_history) + 1
                     /\ new.user_id = UserOf(c)
                     /\ new.artist = user_data[UserOf(c)].artist
                     /\ new.song_name = text
                     /\ new.success = (reply' # "error")
       /\ Len(query_history') >= Len(query_history)
       /\ SubSeq(query_history', 1, Len(query_history)) = query_history
       /\ Len(query_history') > Len(query_history) =>
             \E c \in Convs, text \in OneSong : SongReceivedAttempt(c, text)
      ]_vars

(* The same request logged twice, once failed and once served, under the   *)
(* spelling typed, which is not the folded one.                            *)
C20_Witness ==
    /\ Len(query_history) = 2
    /\ query_history[1].user_id = query_history[2].user_id
    /\ query_history[1].artist = query_history[2].artist
    /\ query_history[1].song_name = query_history[2].song_name
    /\ query_history[1].artist # NormText(query_history[1].artist)
    /\ ~query_history[1].success
    /\ query_history[2].success
    /\ reply = "summary, new"

(* C21: every history row is for a requester that has a profile row: no    *)
(* add_query_to_history leaves a row whose user_id has no row in users.    *)
C21_HistoryHasRequester ==
    \A i \in DOMAIN query_history : users[query_history[i].user_id].present

(* song_received runs in conversation c with an artist set while           *)
(* add_query_to_history ends as `ledger` says.                             *)
SongReceivedWithLedger(c, text, ledger) ==
    \/ SongReceivedServed(c, text, ledger)
    \/ \E l \in BotLyrics, m \in BotSummaries :
           SongReceivedAnalyzed(c, text, l, m, TRUE, ledger)
    \/ \E m \in ErrMsgs : SongReceivedFetchFailed(c, text, m, ledger)
    \/ \E m \in ErrMsgs : SongReceivedComputeFailed(c, text, m, ledger)

(* C22: when the counter update of an append fails, the history row of     *)
(* that append is stored all the same, the counter is as it was, and the   *)
(* user has the answer of the analysis; no later step removes the row.     *)
C22_CounterFailureKeepsRow ==
    [][/\ \A c \in FaultConvs, text \in OneSong :
             SongReceivedWithLedger(c, text, "counter raises") =>
                 LET new == query_history'[Len(query_history')]
                 IN  /\ Len(query_history') = Len(query_history) + 1
                     /\ new.user_id = UserOf(c)
                     /\ new.song_name = text
                     /\ users' = users
                     /\ reply' \in {"summary, from cache", "summary, new",
                                    "error"}
                     /\ new.success = (reply' # "error")
                     /\ conv'[c] = "END"
       /\ Len(query_history') >= Len(query_history)
       /\ SubSeq(query_history', 1, Len(query_history)) = query_history
      ]_vars

(* A summary has been sent and its history row stored while the profile    *)
(* counts fewer requests than the ledger holds.                            *)
C22_Witness ==
    /\ reply = "summary, new"
    /\ users["u1"].present
    /\ users["u1"].total_requests = 0
    /\ Cardinality(RecordsOf("u1")) = 2

(* C23: the key Python computes for a lookup and the key SQLite computes   *)
(* over the stored text agree: after a cache_song(a, t, ...) that returned *)
(* an id and left one entry under the normalized key, get_cached_song with *)
(* the same a and t returns the entry of that id.                          *)
C23_KeysAgree ==
    [][\A a \in RawArtists, t \in RawSongs, l \in {"L1", None} :
          (/\ CacheSong(a, t, l, "S1")
           /\ ~ret'.raised /\ ret'.found
           /\ Cardinality(EntriesOf(song_cache', NormKey(a, t))) = 1)
          => LET g == get_cached_song(song_cache', now, a, t)
             IN  g.found /\ g.row.id = ret'.id]_vars

(* C24: one call of analyze, on whichever path, raises the access counter  *)
(* of an entry by at most 1.                                               *)
C24_OneCountPerCall ==
    [][\A c \in Convs, text \in OneSong :
          SongReceivedAttempt(c, text) =>
              \A r \in song_cache, q \in song_cache' :
                  q.id = r.id => q.access_count <= r.access_count + 1]_vars

(* C25: whenever cache_song returns without raising, it returns the id of  *)
(* an entry that exists under the normalized key of its arguments and      *)
(* holds the lyrics and the summary just written; it never returns None.   *)
C25_PutReturnsEntry ==
    [][\A a \in RawArtists, t \in RawSongs, l \in {"L1", None} :
          (CacheSong(a, t, l, "S1") /\ ~ret'.raised)
          => /\ ret'.found
             /\ \E r \in EntriesOf(song_cache', NormKey(a, t)) :
                    /\ r.id = ret'.id
                    /\ r.lyrics = l
                    /\ r.analysis_summary = "S1"]_vars

(* The calls completed before call i that stored a result for the same     *)
(* normalized key.                                                         *)
PutsBefore(i) ==
    {j \in 1..(i - 1) :
        /\ calls[j].status = "returned" /\ ~calls[j].hit /\ calls[j].stored
        /\ NormKey(calls[j].artist, calls[j].song_name)
               = NormKey(calls[i].artist, calls[i].song_name)}

(* C26: whenever analyze serves a song from cache, the summary it returns  *)
(* is the one written by the most recent successful cache_song for the     *)
(* song's normalized key, whatever the spellings and the interleaving.     *)
C26_CacheCoherence ==
    \A i \in DOMAIN calls :
        (calls[i].status = "returned" /\ calls[i].hit) =>
            /\ PutsBefore(i) # {}
            /\ LET j == CHOOSE k \in PutsBefore(i) :
                            \A m \in PutsBefore(i) : m <= k
               IN  calls[i].data.summary = calls[j].computed

(* song_received handles a message of conversation c, on any of its paths  *)
(* and with any outcome of the history write.                              *)
SongReceived(c, text) ==
    \/ SongReceivedNoArtist(c, text)
    \/ \E g \in LedgerOutcomes : SongReceivedWithLedger(c, text, g)

(* The moves of one conversation: /analyze opens it, the artist takes it   *)
(* to SONG, the title ends it; /cancel ends it from either state.          *)
ConvMoves ==
    {<<"END", "ARTIST">>, <<"ARTIST", "SONG">>, <<"SONG", "END">>,
     <<"ARTIST", "END">>}

(* C27: a conversation advances only ARTIST -> SONG -> END (and leaves     *)
(* ARTIST for END only by /cancel); every song_received, whatever the      *)
(* outcome of the analysis and of the history write, ends the conversation *)
(* and leaves no stored artist; so an artist is stored only while a        *)
(* conversation of that user waits for the title, and a conversation that  *)
(* begins finds none left by one that ended.                               *)
C27_ConversationEnds ==
    /\ [](\A u \in Users :
             user_data[u].has_artist =>
                 \E c \in Convs : UserOf(c) = u /\ conv[c] = "SONG")
    /\ [][\A c \in Convs :
             /\ conv'[c] # conv[c] =>
                    /\ <<conv[c], conv'[c]>> \in ConvMoves
                    /\ (conv[c] = "ARTIST" /\ conv'[c] = "END")
                           => reply' = "cancelled"
             /\ \A text \in OneSong :
                    SongReceived(c, text) =>
                        /\ conv[c] = "SONG" /\ conv'[c] = "END"
                        /\ ~user_data'[UserOf(c)].has_artist]_vars

(* An analysis has been answered, its history write failed, and the        *)
(* conversations are over with no artist left.                             *)
C27_Witness ==
    /\ reply \in {"summary, new", "error"}
    /\ query_history = <<>>
    /\ \A c \in Convs : conv[c] = "END"
    /\ \A u \in Users : ~user_data[u].has_artist

====
